---- MODULE Spec2Model ----
(***************************************************************************)
(* Library management: the SQLite-backed store (database.py), the          *)
(* application glue (app.py) and the window (ui.py): the render / parse    *)
(* pair of the list view and the command handlers.                         *)
(*                                                                         *)
(* Text is a sequence of one-character strings, so that formatting,        *)
(* substring search, LIKE matching and label parsing are computed the way  *)
(* the code computes them.                                                 *)
(***************************************************************************)
EXTENDS Integers, Sequences, FiniteSets, TLC

VARIABLES
    books,   \* the books table: rowid -> row
    issued,  \* history: every rowid the store has assigned so far
    live,    \* history: rowids assigned by a successful insert, not deleted since
    last,    \* the last call on the store, or the last start-up: its arguments,
             \* its result, the table before it
    storage, \* "ok", "broken" (the file cannot be used) or "unopenable"
    disk,    \* the committed table: what the file holds
    in_transaction,  \* conn.in_transaction
    books_list,        \* the lines of the list widget
    selected_book_id,  \* NoAttr until first set, then None or the parsed id
    title_text,        \* the four entry fields of the form
    author_text,
    isbn_text,
    quantity_text,
    shown,             \* the last call on the view: its input, the text before it
    recent,            \* the id the most recent selection parsed
    status_message     \* the text of the status bar

storeVars == <<books, issued, live, last, storage, disk, in_transaction>>

viewVars == <<books_list, selected_book_id, title_text, author_text,
              isbn_text, quantity_text, shown, recent, status_message>>

formVars == <<title_text, author_text, isbn_text, quantity_text>>

vars == <<storeVars, viewVars>>

(***************************************************************************)
(* Bounds                                                                  *)
(***************************************************************************)
\* largest rowid the model lets the store assign
MaxId == 2

(***************************************************************************)
(* Input pools: the texts and numbers callers pass to the store            *)
(***************************************************************************)
Titles == { <<"D","u">>, <<"a","_">> }

Authors == { <<"F","r">>, <<"d","9">> }

Isbns == { <<"9","7">>, <<"u","5">> }

Quantities == { 0, 6 }

\* the ids callers pass to update_book and delete_book
Ids == 1..MaxId

Queries == { <<>>, <<"D","u">>, <<"d","u">>, <<"F","r">>, <<"9">>,
             <<"_">>, <<"%">>, <<"u">>, <<"z">> }

\* the quantities callers pass when the store itself has to judge them
EdgeQuantities == { 0 - 1, 0 }

\* the texts a stored title is drawn from when a list is rendered
ViewTitles == { <<"D","u">>, <<>>, <<"I","D",":","7">> }

\* the ids of the rows a rendered list is drawn from
ViewIds == {1, 2}

(***************************************************************************)
(* Text helpers (Python str and SQLite text semantics)                     *)
(***************************************************************************)
Upper == <<"A","B","C","D","E","F","G","H","I","J","K","L","M",
           "N","O","P","Q","R","S","T","U","V","W","X","Y","Z">>

Lower == <<"a","b","c","d","e","f","g","h","i","j","k","l","m",
           "n","o","p","q","r","s","t","u","v","w","x","y","z">>

\* ASCII case folding of one character, as SQLite's LIKE applies it
Fold(c) ==
    IF \E k \in 1..Len(Upper) : Upper[k] = c
    THEN Lower[CHOOSE k \in 1..Len(Upper) : Upper[k] = c]
    ELSE c

\* s[i..] starts with p
StartsAt(s, i, p) ==
    /\ i + Len(p) - 1 <= Len(s)
    /\ \A k \in 1..Len(p) : s[i + k - 1] = p[k]

\* Python: p in s
Contains(s, p) == \E i \in 1..(Len(s) + 1) : StartsAt(s, i, p)

\* SQLite's LIKE without ESCAPE: % matches any run of characters, _ matches
\* exactly one character, any other character matches itself up to ASCII case
RECURSIVE Like(_, _)
Like(s, p) ==
    IF p = <<>> THEN s = <<>>
    ELSE IF Head(p) = "%"
         THEN Like(s, Tail(p)) \/ (s # <<>> /\ Like(Tail(s), p))
    ELSE IF s = <<>> THEN FALSE
    ELSE IF Head(p) = "_" THEN Like(Tail(s), Tail(p))
    ELSE Fold(Head(s)) = Fold(Head(p)) /\ Like(Tail(s), Tail(p))

\* f"%{query}%"
LikePattern(query) == <<"%">> \o query \o <<"%">>

\* characters str.strip() removes (a line holds no newline)
Whitespace == {" ", "\t"}

RECURSIVE LStrip(_)
LStrip(s) ==
    IF s # <<>> /\ Head(s) \in Whitespace THEN LStrip(Tail(s)) ELSE s

RECURSIVE RStrip(_)
RStrip(s) ==
    IF s # <<>> /\ s[Len(s)] \in Whitespace
    THEN RStrip(SubSeq(s, 1, Len(s) - 1))
    ELSE s

\* Python: s.strip()
Strip(s) == RStrip(LStrip(s))

\* index of the first occurrence of p in s (p occurs in s)
Find(s, p) ==
    CHOOSE i \in 1..(Len(s) + 1) :
        /\ StartsAt(s, i, p)
        /\ \A j \in 1..(i - 1) : ~StartsAt(s, j, p)

\* Python: s.split(sep)[0]
SplitHead(s, sep) ==
    IF Contains(s, sep) THEN SubSeq(s, 1, Find(s, sep) - 1) ELSE s

\* Python: s.split(sep)[1], for a sep that occurs in s
SplitSecond(s, sep) ==
    SplitHead(SubSeq(s, Find(s, sep) + Len(sep), Len(s)), sep)

Digit == <<"0","1","2","3","4","5","6","7","8","9">>

\* Python: str(n) for an int, as an f-string renders it
RECURSIVE Decimal(_)
Decimal(n) ==
    IF n < 0 THEN <<"-">> \o Decimal(0 - n)
    ELSE IF n < 10 THEN <<Digit[n + 1]>>
    ELSE Decimal(n \div 10) \o <<Digit[(n % 10) + 1]>>

(***************************************************************************)
(* The books table                                                         *)
(***************************************************************************)
\* a row of the table without its rowid
Row(title, author, isbn, quantity) ==
    [title |-> title, author |-> author, isbn |-> isbn, quantity |-> quantity]

\* the tuple (id, title, author, isbn, quantity) that SELECT * yields
Tuple(b, id) ==
    [id |-> id, title |-> b[id].title, author |-> b[id].author,
     isbn |-> b[id].isbn, quantity |-> b[id].quantity]

EmptyTable == [i \in {} |-> Row(<<>>, <<>>, <<>>, 0)]

SetMax(S) == CHOOSE m \in S : \A x \in S : x <= m

\* id INTEGER PRIMARY KEY, inserted as NULL: one more than the largest rowid
\* in the table, 1 for an empty table
NextRowid(b) == IF DOMAIN b = {} THEN 1 ELSE SetMax(DOMAIN b) + 1

\* mutant: the isbn column declared without UNIQUE
InsertViolatesUnique_NoConstraint(b, isbn) == FALSE

\* isbn TEXT UNIQUE, on INSERT: another row already carries the isbn
InsertViolatesUnique(b, isbn) == \E i \in DOMAIN b : b[i].isbn = isbn

\* INSERT INTO books VALUES (NULL, ?, ?, ?, ?)
InsertRow(b, title, author, isbn, quantity) ==
    [i \in DOMAIN b \cup {NextRowid(b)} |->
        IF i \in DOMAIN b THEN b[i] ELSE Row(title, author, isbn, quantity)]

\* the ids of a set in ascending order: the rowid order of a table scan
RECURSIVE Ascending(_)
Ascending(S) ==
    IF S = {} THEN <<>>
    ELSE LET m == CHOOSE x \in S : \A y \in S : x <= y
         IN  <<m>> \o Ascending(S \ {m})

\* WHERE title LIKE ? OR author LIKE ? OR isbn LIKE ?
WhereLike(row, query) ==
    \/ Like(row.title, LikePattern(query))
    \/ Like(row.author, LikePattern(query))
    \/ Like(row.isbn, LikePattern(query))

\* if query: SELECT ... WHERE ...  else: SELECT * FROM books
Selected(b, query) ==
    IF query # <<>>
    THEN {i \in DOMAIN b : WhereLike(b[i], query)}
    ELSE DOMAIN b

\* mutant: cursor.fetchmany(1) in place of fetchall()
FetchAll_FirstOnly(b, ids) ==
    LET order == Ascending(ids)
    IN  [k \in 1..(IF Len(order) > 0 THEN 1 ELSE 0) |-> Tuple(b, order[k])]

\* cursor.fetchall()
FetchAll(b, ids) ==
    LET order == Ascending(ids)
    IN  [k \in 1..Len(order) |-> Tuple(b, order[k])]

\* mutant: UNIQUE not enforced on UPDATE
UpdateViolatesUnique_NoConstraint(b, id, isbn) == FALSE

\* isbn TEXT UNIQUE, on UPDATE of row id: a different row carries the isbn
UpdateViolatesUnique(b, id, isbn) ==
    /\ id \in DOMAIN b
    /\ \E i \in DOMAIN b : i # id /\ b[i].isbn = isbn

\* mutant: the UPDATE without its WHERE clause
UpdateRow_NoWhere(b, id, title, author, isbn, quantity) ==
    [i \in DOMAIN b |-> Row(title, author, isbn, quantity)]

\* mutant: the SET list without author
UpdateRow_KeepAuthor(b, id, title, author, isbn, quantity) ==
    [i \in DOMAIN b |->
        IF i = id THEN Row(title, b[i].author, isbn, quantity) ELSE b[i]]

\* UPDATE books SET title=?, author=?, isbn=?, quantity=? WHERE id=?
UpdateRow(b, id, title, author, isbn, quantity) ==
    [i \in DOMAIN b |->
        IF i = id THEN Row(title, author, isbn, quantity) ELSE b[i]]

\* mutant: DELETE FROM books without the WHERE clause
DeleteRow_NoWhere(b, id) == EmptyTable

\* DELETE FROM books WHERE id=?
DeleteRow(b, id) == [i \in DOMAIN b \ {id} |-> b[i]]

(***************************************************************************)
(* The list view: LibraryUI._display_books and LibraryUI._on_list_select   *)
(***************************************************************************)
\* width of the separator line of a block
SeparatorWidth == 40

Separator == [k \in 1..SeparatorWidth |-> "-"]

NoBooksFound ==
    <<"N","o"," ","b","o","o","k","s"," ","f","o","u","n","d",".">>

LabelId == <<"I","D",":">>

LabelTitle == <<"T","i","t","l","e",":">>

LabelAuthor == <<"A","u","t","h","o","r",":">>

LabelIsbn == <<"I","S","B","N",":">>

LabelQuantity == <<"Q","u","a","n","t","i","t","y",":">>

\* f"<label> {value}"
Labelled(label, value) == label \o <<" ">> \o value

\* the lines one book contributes; the last insert ends in two newlines
Block(book) ==
    << Separator,
       Labelled(LabelId, Decimal(book.id)),
       Labelled(LabelTitle, book.title),
       Labelled(LabelAuthor, book.author),
       Labelled(LabelIsbn, book.isbn),
       Labelled(LabelQuantity, Decimal(book.quantity)),
       Separator,
       <<>> >>

RECURSIVE Blocks(_)
Blocks(bs) == IF bs = <<>> THEN <<>> ELSE Block(Head(bs)) \o Blocks(Tail(bs))

\* mutant: books_list.delete(1.0, tk.END) left out
DisplayLines_NoClear(old, bs) ==
    old \o (IF bs = <<>> THEN <<NoBooksFound>> ELSE Blocks(bs))

\* the widget's lines after _display_books(bs), old being its lines before
DisplayLines(old, bs) ==
    IF bs = <<>> THEN <<NoBooksFound>> ELSE Blocks(bs)

\* a line str.strip() reduces to nothing
Blank(line) == \A k \in 1..Len(line) : line[k] \in Whitespace

\* selected_text.strip().split('\n') on a selection of whole lines
RECURSIVE DropBlankHead(_)
DropBlankHead(lines) ==
    IF lines # <<>> /\ Blank(Head(lines)) THEN DropBlankHead(Tail(lines))
    ELSE lines

RECURSIVE DropBlankLast(_)
DropBlankLast(lines) ==
    IF lines # <<>> /\ Blank(lines[Len(lines)])
    THEN DropBlankLast(SubSeq(lines, 1, Len(lines) - 1))
    ELSE lines

StripSplit(lines) ==
    LET kept == DropBlankLast(DropBlankHead(lines))
    IN  IF kept = <<>> THEN << <<>> >>
        ELSE [k \in 1..Len(kept) |->
                IF k = 1 /\ k = Len(kept) THEN Strip(kept[k])
                ELSE IF k = 1 THEN LStrip(kept[k])
                ELSE IF k = Len(kept) THEN RStrip(kept[k])
                ELSE kept[k]]

\* book_data[key] = value
Put(data, key, value) ==
    [k \in DOMAIN data \cup {key} |-> IF k = key THEN value ELSE data[k]]

\* the if / elif chain over one line
ParseLine(data, line) ==
    IF Contains(line, LabelId)
    THEN Put(data, "id",
             SplitHead(Strip(SplitSecond(line, LabelId)), <<" ">>))
    ELSE IF Contains(line, LabelTitle)
    THEN Put(data, "title", Strip(SplitSecond(line, LabelTitle)))
    ELSE IF Contains(line, LabelAuthor)
    THEN Put(data, "author", Strip(SplitSecond(line, LabelAuthor)))
    ELSE IF Contains(line, LabelIsbn)
    THEN Put(data, "isbn", Strip(SplitSecond(line, LabelIsbn)))
    ELSE IF Contains(line, LabelQuantity)
    THEN Put(data, "quantity", Strip(SplitSecond(line, LabelQuantity)))
    ELSE data

\* book_data = {}
EmptyData == [k \in {} |-> <<>>]

\* for line in lines: ...
RECURSIVE ParseLines(_, _)
ParseLines(data, lines) ==
    IF lines = <<>> THEN data
    ELSE ParseLines(ParseLine(data, Head(lines)), Tail(lines))

\* book_data of a selection of whole lines
ParseSelection(lines) == ParseLines(EmptyData, StripSplit(lines))

\* book_data.get(key, default)
Get(data, key, default) == IF key \in DOMAIN data THEN data[key] ELSE default

\* selected_book_id before its first assignment, and Python's None
NoAttr == <<"<no attribute>">>

None == <<"<None>">>

\* the rows a rendered list is drawn from: the title varies, the other
\* fields follow the rowid
ViewRows(id) ==
    { Row(t, <<"F","r">>,
          IF id = 1 THEN <<"9","7">> ELSE <<"u","5">> \o Decimal(id),
          IF id = 1 THEN 0 ELSE 6 * id) : t \in ViewTitles }

ViewTables ==
    UNION { {b \in [S -> UNION {ViewRows(i) : i \in S}] :
                \A i \in S : b[i] \in ViewRows(i)} : S \in SUBSET ViewIds }

\* what view_books() returns on these tables
ShownLists == { FetchAll(b, Selected(b, <<>>)) : b \in ViewTables }

NoArgs == [id |-> 0, title |-> <<>>, author |-> <<>>, isbn |-> <<>>,
           quantity |-> 0, query |-> <<>>]

(***************************************************************************)
(* Database.__init__ on a new file: the table exists and is empty;         *)
(* LibraryUI.__init__: an empty list widget and empty entry fields         *)
(***************************************************************************)
NoLast == [op |-> "init", args |-> NoArgs, ok |-> TRUE, raised |-> "none",
           rows |-> <<>>, newid |-> 0, before |-> EmptyTable,
           issuedBefore |-> {}]

\* __init__ returned: with the file unopenable, _connect leaves cursor None and
\* _create_table raises AttributeError out of the constructor
Constructed == storage # "unopenable"

\* what view_books(query) returns: [] from the except branch when the file is
\* unusable, else the fetched rows
ViewResult(st, b, query) ==
    IF st = "broken" THEN <<>> ELSE FetchAll(b, Selected(b, query))

\* mutant: conn.commit() left out
Commit_Skipped(file, b) == file

\* conn.commit(): the file holds the connection's table
Commit(file, b) == b

NoShown == [op |-> "init", input |-> <<>>, from |-> 0, to |-> 0,
            before |-> <<>>, data |-> EmptyData]

Init ==
    /\ books_list = <<>>
    /\ selected_book_id = NoAttr
    /\ title_text = <<>>
    /\ author_text = <<>>
    /\ isbn_text = <<>>
    /\ quantity_text = <<>>
    /\ shown = NoShown
    /\ recent = None
    /\ status_message = <<>>
    /\ books = EmptyTable
    /\ issued = {}
    /\ live = {}
    /\ last = NoLast
    /\ storage = "ok"
    /\ disk = EmptyTable
    /\ in_transaction = FALSE

(***************************************************************************)
(* Database.insert_book                                                    *)
(***************************************************************************)
\* the record of a call for the properties: what was passed, what came back,
\* which exception the handler caught, the table and the ids before the call
Call(op, args, ok, raised, rows, newid) ==
    [op |-> op, args |-> args, ok |-> ok, raised |-> raised, rows |-> rows,
     newid |-> newid, before |-> books, issuedBefore |-> issued]

\* the call leaves the connection's table, the file and the ids as they are
StoreUntouched ==
    /\ books' = books
    /\ disk' = disk
    /\ issued' = issued
    /\ live' = live

insert_book(title, author, isbn, quantity) ==
    LET args == [NoArgs EXCEPT !.title = title, !.author = author,
                               !.isbn = isbn, !.quantity = quantity]
    IN  /\ Constructed
        /\ IF storage = "broken"
           THEN \* except sqlite3.Error: return False
                /\ StoreUntouched
                /\ in_transaction' = in_transaction
                /\ last' = Call("insert", args, FALSE, "Error", <<>>, 0)
           ELSE IF InsertViolatesUnique(books, isbn)
           THEN \* except sqlite3.IntegrityError: the statement is undone, the
                \* transaction it opened stays open, return False
                /\ StoreUntouched
                /\ in_transaction' = TRUE
                /\ last' = Call("insert", args, FALSE, "IntegrityError", <<>>, 0)
           ELSE /\ NextRowid(books) <= MaxId
                /\ books' = InsertRow(books, title, author, isbn, quantity)
                /\ disk' = Commit(disk, books')
                /\ in_transaction' = FALSE
                /\ issued' = issued \cup {NextRowid(books)}
                /\ live' = live \cup {NextRowid(books)}
                /\ last' = Call("insert", args, TRUE, "none", <<>>,
                                NextRowid(books))
        /\ storage' = storage

(***************************************************************************)
(* Database.view_books                                                     *)
(***************************************************************************)
view_books(query) ==
    /\ Constructed
    /\ StoreUntouched
    /\ in_transaction' = in_transaction
    /\ storage' = storage
    /\ last' = Call("view", [NoArgs EXCEPT !.query = query], TRUE,
                     IF storage = "broken" THEN "Error" ELSE "none",
                     ViewResult(storage, books, query), 0)

(***************************************************************************)
(* Database.update_book                                                    *)
(***************************************************************************)
update_book(id, title, author, isbn, quantity) ==
    LET args == [NoArgs EXCEPT !.id = id, !.title = title, !.author = author,
                               !.isbn = isbn, !.quantity = quantity]
    IN  /\ Constructed
        /\ IF storage = "broken"
           THEN \* except sqlite3.Error: return False
                /\ StoreUntouched
                /\ in_transaction' = in_transaction
                /\ last' = Call("update", args, FALSE, "Error", <<>>, 0)
           ELSE IF UpdateViolatesUnique(books, id, isbn)
           THEN \* except sqlite3.IntegrityError: the statement is undone, the
                \* transaction it opened stays open, return False
                /\ StoreUntouched
                /\ in_transaction' = TRUE
                /\ last' = Call("update", args, FALSE, "IntegrityError", <<>>, 0)
           ELSE \* no row with this id: the statement changes 0 rows, True
                /\ books' = UpdateRow(books, id, title, author, isbn, quantity)
                /\ disk' = Commit(disk, books')
                /\ in_transaction' = FALSE
                /\ issued' = issued
                /\ live' = live
                /\ last' = Call("update", args, TRUE, "none", <<>>, 0)
        /\ storage' = storage

(***************************************************************************)
(* Database.delete_book                                                    *)
(***************************************************************************)
delete_book(id) ==
    /\ Constructed
    /\ IF storage = "broken"
       THEN \* except sqlite3.Error: return False
            /\ StoreUntouched
            /\ in_transaction' = in_transaction
            /\ last' = Call("delete", [NoArgs EXCEPT !.id = id], FALSE,
                            "Error", <<>>, 0)
       ELSE /\ books' = DeleteRow(books, id)
            /\ disk' = Commit(disk, books')
            /\ in_transaction' = FALSE
            /\ issued' = issued
            /\ live' = live \ {id}
            /\ last' = Call("delete", [NoArgs EXCEPT !.id = id], TRUE, "none",
                            <<>>, 0)
    /\ storage' = storage

(***************************************************************************)
(* LibraryUI._display_books                                                *)
(***************************************************************************)
display_books(bs) ==
    /\ books_list' = DisplayLines(books_list, bs)
    /\ shown' = [NoShown EXCEPT !.op = "display", !.input = bs,
                                !.before = books_list]

(***************************************************************************)
(* LibraryUI._on_list_select, the selection being lines from..to           *)
(***************************************************************************)
on_list_select(from, to) ==
    \E book_data \in {ParseSelection(SubSeq(books_list, from, to))} :
        /\ from <= to
        /\ IF DOMAIN book_data # {}
           THEN /\ selected_book_id' = Get(book_data, "id", None)
                /\ title_text' = Get(book_data, "title", <<>>)
                /\ author_text' = Get(book_data, "author", <<>>)
                /\ isbn_text' = Get(book_data, "isbn", <<>>)
                /\ quantity_text' = Get(book_data, "quantity", <<>>)
           ELSE UNCHANGED <<selected_book_id, title_text, author_text,
                            isbn_text, quantity_text>>
        /\ shown' = [NoShown EXCEPT !.op = "select", !.input = shown.input,
                                    !.from = from, !.to = to,
                                    !.before = books_list, !.data = book_data]
        /\ recent' = Get(book_data, "id", None)
        /\ UNCHANGED status_message
        /\ UNCHANGED books_list

Next ==
    \/ \E t \in Titles, a \in Authors, i \in Isbns, q \in Quantities :
          insert_book(t, a, i, q) /\ UNCHANGED viewVars
    \/ \E query \in Queries : view_books(query) /\ UNCHANGED viewVars
    \/ \E id \in Ids, t \in Titles, a \in Authors, i \in Isbns,
          q \in Quantities :
          update_book(id, t, a, i, q) /\ UNCHANGED viewVars
    \/ \E id \in Ids : delete_book(id) /\ UNCHANGED viewVars

Spec == Init /\ [][Next]_vars

(***************************************************************************)
(* The view alone, as a pair of functions: the widget holds what an        *)
(* earlier render left, a list as view_books returns it is rendered, and   *)
(* one selection of whole lines of the result is parsed back               *)
(***************************************************************************)
\* what the widget can hold before the render: nothing yet, the rendering of
\* an empty list, the block of one book
PriorTexts ==
    { <<>>, DisplayLines(<<>>, <<>>),
      DisplayLines(<<>>, <<[id |-> 1, title |-> <<"D","u">>,
                            author |-> <<"F","r">>, isbn |-> <<"9","7">>,
                            quantity |-> 0]>>) }

InitView ==
    /\ books = EmptyTable
    /\ issued = {}
    /\ live = {}
    /\ last = NoLast
    /\ storage = "ok"
    /\ disk = EmptyTable
    /\ in_transaction = FALSE
    /\ books_list \in PriorTexts
    /\ selected_book_id = NoAttr
    /\ title_text = <<>>
    /\ author_text = <<>>
    /\ isbn_text = <<>>
    /\ quantity_text = <<>>
    /\ shown = NoShown
    /\ recent = None
    /\ status_message = <<>>

NextView ==
    \/ \E bs \in ShownLists :
          /\ shown.op = "init"
          /\ display_books(bs)
          /\ UNCHANGED <<storeVars, formVars, selected_book_id, recent,
                       status_message>>
    \/ \E from, to \in 1..Len(books_list) :
          /\ shown.op = "display"
          /\ on_list_select(from, to)
          /\ UNCHANGED storeVars

SpecView == InitView /\ [][NextView]_vars

(***************************************************************************)
(* The store on its own authority: any int as quantity, and a file that    *)
(* may be unusable from the start. Database(db_name) either returns with   *)
(* the table ready, returns after _create_table caught sqlite3.Error (the  *)
(* file is not a database), or raises when the path cannot be opened       *)
(***************************************************************************)
InitEdge ==
    /\ books = EmptyTable
    /\ issued = {}
    /\ live = {}
    /\ last = NoLast
    /\ storage \in {"ok", "broken", "unopenable"}
    /\ disk = EmptyTable
    /\ in_transaction = FALSE
    /\ books_list = <<>>
    /\ selected_book_id = NoAttr
    /\ title_text = <<>>
    /\ author_text = <<>>
    /\ isbn_text = <<>>
    /\ quantity_text = <<>>
    /\ shown = NoShown
    /\ recent = None
    /\ status_message = <<>>

NextEdge ==
    \/ \E t \in Titles, i \in Isbns, q \in EdgeQuantities :
          insert_book(t, <<"F","r">>, i, q) /\ UNCHANGED viewVars
    \/ \E query \in {<<>>, <<"z">>} :
          view_books(query) /\ UNCHANGED viewVars
    \/ \E id \in Ids, t \in Titles, i \in Isbns, q \in EdgeQuantities :
          update_book(id, t, <<"F","r">>, i, q) /\ UNCHANGED viewVars
    \/ \E id \in Ids : delete_book(id) /\ UNCHANGED viewVars

SpecEdge == InitEdge /\ [][NextEdge]_vars

(***************************************************************************)
(* The window in use. The handlers run one at a time on the Tk event loop; *)
(* each action is one handler from its first line to its return, the       *)
(* calls it makes on LibraryApp and Database included. After a handler's   *)
(* mutating call, last keeps that call: the view_books of the refresh      *)
(* that follows changes nothing in the store.                              *)
(***************************************************************************)
\* what a user leaves in the entry fields before pressing a button:
\* title, author, isbn, quantity
Entries ==
    { << <<"D","u">>, <<"F","r">>, <<"9","7">>, <<"0">> >>,
      << <<"a","_">>, <<"F","r">>, <<"u","5">>, <<" ","6">> >> }

\* entries the handlers refuse: a field blank or empty, a quantity negative
\* or not a number
BadEntries ==
    { << <<" ">>,     <<"F","r">>, <<"9","7">>, <<"6">> >>,
      << <<"D","u">>, <<>>,        <<"9","7">>, <<"6">> >>,
      << <<"D","u">>, <<"F","r">>, <<>>,        <<"0">> >>,
      << <<"D","u">>, <<"F","r">>, <<"u","5">>, <<>> >>,
      << <<"D","u">>, <<"F","r">>, <<"u","5">>, <<"-","1">> >>,
      << <<"D","u">>, <<"F","r">>, <<"9","7">>, <<"x">> >> }

\* the decimal digits of a literal, its sign removed
Unsigned(s) == IF s # <<>> /\ Head(s) \in {"+", "-"} THEN Tail(s) ELSE s

\* Python: int(s) returns rather than raising ValueError, for a stripped s
\* of ASCII digits with an optional sign
IsInt(s) ==
    /\ Unsigned(s) # <<>>
    /\ \A k \in 1..Len(Unsigned(s)) :
          \E d \in 1..Len(Digit) : Unsigned(s)[k] = Digit[d]

RECURSIVE Magnitude(_)
Magnitude(ds) ==
    IF ds = <<>> THEN 0
    ELSE 10 * Magnitude(SubSeq(ds, 1, Len(ds) - 1))
         + ((CHOOSE d \in 1..Len(Digit) : ds[Len(ds)] = Digit[d]) - 1)

\* Python: int(s), for an s with IsInt(s)
IntOf(s) ==
    IF Head(s) = "-" THEN 0 - Magnitude(Unsigned(s)) ELSE Magnitude(Unsigned(s))

\* Python: all([title, author, isbn, quantity_str])
AllFilled(fields) == \A k \in 1..Len(fields) : fields[k] # <<>>

\* mutant: the quantity < 0 test left out
ValidQuantity_AnyInt(quantity_str) == IsInt(quantity_str)

\* the try block of _add_command and _update_command ends without ValueError
ValidQuantity(quantity_str) ==
    IsInt(quantity_str) /\ IntOf(quantity_str) >= 0

\* hasattr(self, 'selected_book_id') and self.selected_book_id
HasSelection(sel) == sel \notin {NoAttr, None, <<>>}

\* mutant: self.selected_book_id = None left out
Deselect_Kept(sel) == sel

\* self.selected_book_id = None
Deselect(sel) == None

\* the rowid "WHERE id=?" compares equal to when the parameter is the text
\* the selection parsed: its integer value, and no rowid for other text
RowidOf(book_id) == IF IsInt(book_id) THEN IntOf(book_id) ELSE 0

\* LibraryUI._clear_entries
clear_entries ==
    /\ title_text' = <<>>
    /\ author_text' = <<>>
    /\ isbn_text' = <<>>
    /\ quantity_text' = <<>>

\* mutant: the list is refreshed from the table as it was before the call
view_all_books_Stale(b) == display_books(ViewResult(storage, books, <<>>))

\* LibraryApp.view_all_books on the table b
view_all_books(b) == display_books(ViewResult(storage, b, <<>>))

\* LibraryUI._display_message
display_message(message) == status_message' = message

\* a handler shows a message and returns before it calls the store
Rejected(message) ==
    /\ display_message(message)
    /\ UNCHANGED <<storeVars, books_list, selected_book_id, formVars, shown,
                   recent>>

\* the user edits the entry fields
type_entries(e) ==
    /\ title_text' = e[1]
    /\ author_text' = e[2]
    /\ isbn_text' = e[3]
    /\ quantity_text' = e[4]
    /\ UNCHANGED <<storeVars, books_list, selected_book_id, shown, recent,
                   status_message>>

\* LibraryUI._add_command
add_command ==
    LET title == Strip(title_text)
        author == Strip(author_text)
        isbn == Strip(isbn_text)
        quantity_str == Strip(quantity_text)
    IN  IF ~AllFilled(<<title, author, isbn, quantity_str>>)
        THEN Rejected(<<"All fields must be filled.">>)
        ELSE IF ~ValidQuantity(quantity_str)
        THEN Rejected(<<"Quantity must be a non-negative integer.">>)
        ELSE /\ insert_book(title, author, isbn, IntOf(quantity_str))
             /\ IF last'.ok
                THEN /\ display_message(<<"Book added successfully!">>)
                     /\ clear_entries
                     /\ view_all_books(books')
                ELSE /\ display_message(
                          <<"Failed to add book. ISBN might already exist.">>)
                     /\ UNCHANGED <<formVars, books_list, shown>>
             /\ UNCHANGED <<selected_book_id, recent>>

\* LibraryUI._view_command
view_command ==
    /\ view_books(<<>>)
    /\ display_books(last'.rows)
    /\ display_message(<<"Displaying all books.">>)
    /\ clear_entries
    /\ UNCHANGED <<selected_book_id, recent>>

\* LibraryUI._search_command
search_command ==
    LET search_term == Strip(title_text)
    IN  IF search_term = <<>>
        THEN Rejected(<<"Please enter a search term in the Title field.">>)
        ELSE /\ view_books(search_term)
             /\ display_books(last'.rows)
             /\ display_message(<<"Searching for '">> \o search_term
                                    \o <<"'.">>)
             /\ UNCHANGED <<formVars, selected_book_id, recent>>

\* LibraryUI._update_command
update_command ==
    LET title == Strip(title_text)
        author == Strip(author_text)
        isbn == Strip(isbn_text)
        quantity_str == Strip(quantity_text)
    IN  IF ~HasSelection(selected_book_id)
        THEN Rejected(<<"Please select a book from the list to update.">>)
        ELSE IF ~AllFilled(<<title, author, isbn, quantity_str>>)
        THEN Rejected(<<"All fields must be filled for update.">>)
        ELSE IF ~ValidQuantity(quantity_str)
        THEN Rejected(<<"Quantity must be a non-negative integer.">>)
        ELSE /\ update_book(RowidOf(selected_book_id), title, author, isbn,
                            IntOf(quantity_str))
             /\ IF last'.ok
                THEN /\ display_message(<<"Book ID ">> \o selected_book_id
                                            \o <<" updated successfully!">>)
                     /\ clear_entries
                     /\ view_all_books(books')
                     /\ selected_book_id' = Deselect(selected_book_id)
                ELSE /\ display_message(
                          <<"Failed to update book. ISBN might already exist for another book.">>)
                     /\ UNCHANGED <<formVars, books_list, shown,
                                      selected_book_id>>
             /\ UNCHANGED recent

\* LibraryUI._delete_command, confirm being the answer to askyesno
delete_command(confirm) ==
    IF ~HasSelection(selected_book_id)
    THEN Rejected(<<"Please select a book from the list to delete.">>)
    ELSE IF ~confirm
    THEN UNCHANGED vars
    ELSE /\ delete_book(RowidOf(selected_book_id))
         /\ IF last'.ok
            THEN /\ display_message(<<"Book ID ">> \o selected_book_id
                                        \o <<" deleted successfully!">>)
                 /\ clear_entries
                 /\ view_all_books(books')
                 /\ selected_book_id' = Deselect(selected_book_id)
            ELSE /\ display_message(<<"Failed to delete book.">>)
                 /\ UNCHANGED <<formVars, books_list, shown,
                                  selected_book_id>>
         /\ UNCHANGED recent

\* the database file stops being usable while the window is open: every
\* later statement raises sqlite3.Error
storage_fails ==
    /\ storage = "ok"
    /\ storage' = "broken"
    /\ UNCHANGED <<books, issued, live, last, disk, in_transaction, viewVars>>

\* the selections a user makes: the first line alone, the second line alone,
\* one whole block
UserSpans(lines) ==
    { span \in {<<1, 1>>, <<2, 2>>} : span[2] <= Len(lines) }
        \cup { <<8 * k - 7, 8 * k>> : k \in 1..(Len(lines) \div 8) }

\* LibraryApp.__init__ on a file an earlier run left the table b in, b not
\* empty: _initialize_data adds nothing, and the list widget stays empty
\* until the first command
InitWindow(b) ==
    /\ books = b
    /\ issued = DOMAIN b
    /\ live = DOMAIN b
    /\ last = NoLast
    /\ storage = "ok"
    /\ disk = b
    /\ in_transaction = FALSE
    /\ books_list = <<>>
    /\ selected_book_id = NoAttr
    /\ title_text = <<>>
    /\ author_text = <<>>
    /\ isbn_text = <<>>
    /\ quantity_text = <<>>
    /\ shown = NoShown
    /\ recent = None
    /\ status_message =
          <<"Database already contains books. Click 'View All' to display.">>

\* the earlier run left one record
OneBook == InsertRow(EmptyTable, <<"D","u">>, <<"F","r">>, <<"9","7">>, 0)

\* the earlier run left two records
TwoBooks == InsertRow(OneBook, <<"a","_">>, <<"F","r">>, <<"u","5">>, 6)

InitUI == InitWindow(OneBook)

InitSelected == InitWindow(TwoBooks)

NextUI ==
    \/ \E e \in Entries : type_entries(e)
    \/ add_command
    \/ view_command
    \/ search_command
    \/ update_command
    \/ \E confirm \in BOOLEAN : delete_command(confirm)
    \/ \E span \in UserSpans(books_list) :
          on_list_select(span[1], span[2]) /\ UNCHANGED storeVars

SpecUI == InitUI /\ [][NextUI]_vars

(***************************************************************************)
(* Update Selected and Delete Selected on a record chosen from the list    *)
(* View All shows, the file failing at any moment                          *)
(***************************************************************************)
NextSelected ==
    \/ \E e \in Entries : type_entries(e)
    \/ view_command
    \/ update_command
    \/ \E confirm \in BOOLEAN : delete_command(confirm)
    \/ \E span \in UserSpans(books_list) :
          on_list_select(span[1], span[2]) /\ UNCHANGED storeVars
    \/ storage_fails

SpecSelected == InitSelected /\ [][NextSelected]_vars

(***************************************************************************)
(* Add Book and Update Selected on whatever the user has typed, the list   *)
(* shown by View All and a record chosen by selecting its block            *)
(***************************************************************************)
NextForm ==
    \/ \E e \in Entries \cup BadEntries : type_entries(e)
    \/ add_command
    \/ update_command
    \/ view_command
    \/ \E k \in 1..(Len(books_list) \div 8) :
          on_list_select(8 * k - 7, 8 * k) /\ UNCHANGED storeVars

SpecForm == InitUI /\ [][NextForm]_vars

(***************************************************************************)
(* Start-up. LibraryApp.__init__ opens library.db, builds the window and   *)
(* runs _initialize_data; the file outlives the process, so the table a    *)
(* start-up finds is the one the run before it committed.                  *)
(***************************************************************************)
\* the books _initialize_data inserts, in its order
Samples ==
    <<
      Row(<<"T","h","e"," ","H","o","b","b","i","t">>,
          <<"J",".","R",".","R","."," ","T","o","l","k","i","e","n">>,
          <<"9","7","8","-","0","3","4","5","3","3","9","6","8","3">>,
          10),
      Row(<<"P","r","i","d","e"," ","a","n","d"," ","P","r","e","j","u","d",
          "i","c","e">>,
          <<"J","a","n","e"," ","A","u","s","t","e","n">>,
          <<"9","7","8","-","0","1","4","1","4","3","9","5","1","8">>,
          7),
      Row(<<"T","o"," ","t","h","e"," ","L","i","g","h","t","h","o","u","s",
          "e">>,
          <<"V","i","r","g","i","n","i","a"," ","W","o","o","l","f">>,
          <<"9","7","8","-","0","1","5","6","9","0","7","3","9","2">>,
          4),
      Row(<<"D","u","n","e">>,
          <<"F","r","a","n","k"," ","H","e","r","b","e","r","t">>,
          <<"9","7","8","-","0","4","4","1","0","1","3","5","9","3">>,
          6),
      Row(<<"F","o","u","n","d","a","t","i","o","n">>,
          <<"I","s","a","a","c"," ","A","s","i","m","o","v">>,
          <<"9","7","8","-","0","5","5","3","8","0","3","7","1","7">>,
          8)
    >>

\* mutant: the sample data is inserted whatever view_books returns
NoBooks_Always(rows) == TRUE

\* Python: not self.db.view_books()
NoBooks(rows) == rows = <<>>

\* the table after insert_book on each of the books in turn, an insert the
\* UNIQUE constraint refuses changing nothing
RECURSIVE InsertAll(_, _)
InsertAll(b, rows) ==
    IF rows = <<>> THEN b
    ELSE InsertAll(IF InsertViolatesUnique(b, Head(rows).isbn)
                   THEN b
                   ELSE InsertRow(b, Head(rows).title, Head(rows).author,
                                  Head(rows).isbn, Head(rows).quantity),
                   Tail(rows))

\* the status bar after _initialize_data
StartMessage(rows) ==
    IF NoBooks(rows)
    THEN <<"Sample data added. Click 'View All' to see them.">>
    ELSE <<"Database already contains books. Click 'View All' to display.">>

\* the first start-up, on a new file: the table is created empty and
\* _initialize_data fills it
InitStart ==
    /\ books = InsertAll(EmptyTable, Samples)
    /\ disk = Commit(EmptyTable, books)
    /\ issued = DOMAIN books
    /\ live = DOMAIN books
    /\ last = [NoLast EXCEPT !.op = "start"]
    /\ storage = "ok"
    /\ in_transaction = FALSE
    /\ books_list = <<>>
    /\ selected_book_id = NoAttr
    /\ title_text = <<>>
    /\ author_text = <<>>
    /\ isbn_text = <<>>
    /\ quantity_text = <<>>
    /\ shown = NoShown
    /\ recent = None
    /\ status_message = StartMessage(<<>>)

\* the application is closed and started again: a new connection on the
\* file, a new window, _initialize_data. last takes the record of the whole
\* start-up: the rows its view_books call returned and the table it found
start ==
    /\ books' = IF NoBooks(ViewResult(storage, disk, <<>>))
                THEN InsertAll(disk, Samples)
                ELSE disk
    /\ disk' = Commit(disk, books')
    /\ issued' = issued \cup DOMAIN books'
    /\ live' = live \cup DOMAIN books'
    /\ last' = [NoLast EXCEPT !.op = "start",
                              !.rows = ViewResult(storage, disk, <<>>),
                              !.before = disk, !.issuedBefore = issued]
    /\ storage' = storage
    /\ in_transaction' = FALSE
    /\ books_list' = <<>>
    /\ selected_book_id' = NoAttr
    /\ clear_entries
    /\ shown' = NoShown
    /\ recent' = None
    /\ status_message' = StartMessage(ViewResult(storage, disk, <<>>))

NextStart ==
    \/ start
    \/ \E id \in 1..Len(Samples) : delete_book(id) /\ UNCHANGED viewVars
    \/ \E t \in Titles, i \in Isbns :
          insert_book(t, <<"F","r">>, i, 0) /\ UNCHANGED viewVars

SpecStart == InitStart /\ [][NextStart]_vars

(***************************************************************************)
(* Properties of the store                                                 *)
(***************************************************************************)
\* the rows of table b, other than row id, that carry isbn
OthersWithIsbn(b, id, isbn) == {i \in DOMAIN b : i # id /\ b[i].isbn = isbn}

\* the ids of the tuples in a result
ResultIds(rows) == {rows[k].id : k \in 1..Len(rows)}

\* C1: after any sequence of insert_book, update_book and delete_book calls,
\* successful or failed, no two rows of the table carry the same isbn.
C1_UniqueIsbn ==
    \A i, j \in DOMAIN books : i # j => books[i].isbn # books[j].isbn

\* C1 case: two rows in the table, and the last call was an update_book that
\* was refused
C1_Witness ==
    /\ Cardinality(DOMAIN books) = 2
    /\ last.op = "update"
    /\ ~last.ok

\* C2: insert_book with the isbn of an existing row reports failure and leaves
\* the table as it was (same rows, same fields).
C2_DuplicateInsertRefused ==
    (last.op = "insert" /\ OthersWithIsbn(last.before, 0, last.args.isbn) # {})
        => (~last.ok /\ books = last.before)

\* C2 case: an insert_book whose isbn a row of the table already carried
C2_Witness ==
    /\ last.op = "insert"
    /\ OthersWithIsbn(last.before, 0, last.args.isbn) # {}
    /\ Cardinality(DOMAIN books) = 2

\* C3: insert_book with an isbn no row carries succeeds, and the id it assigns
\* was never assigned before, not even to a row deleted since.
C3_FreshInsertNeverReusesId ==
    (last.op = "insert" /\ OthersWithIsbn(last.before, 0, last.args.isbn) = {})
        => /\ last.ok
           /\ last.newid \in DOMAIN books
           /\ last.newid \notin last.issuedBefore

\* C4: update_book with an id no row has reports failure and changes nothing.
C4_UpdateMissingIdFails ==
    (last.op = "update" /\ last.args.id \notin DOMAIN last.before)
        => (~last.ok /\ books = last.before)

\* C5: update_book of an existing row to the isbn of a different row fails and
\* leaves the table as it was; update_book that keeps the row's own isbn
\* succeeds and the row then has the given title, author and quantity.
C5_UpdateIsbnRule ==
    (last.op = "update" /\ last.args.id \in DOMAIN last.before)
        => /\ OthersWithIsbn(last.before, last.args.id, last.args.isbn) # {}
                => (~last.ok /\ books = last.before)
           /\ last.before[last.args.id].isbn = last.args.isbn
                => /\ last.ok
                   /\ last.args.id \in DOMAIN books
                   /\ books[last.args.id].title = last.args.title
                   /\ books[last.args.id].author = last.args.author
                   /\ books[last.args.id].quantity = last.args.quantity
                   /\ books[last.args.id].isbn = last.args.isbn

\* C5 case: an update_book that kept the row's isbn and changed its title,
\* author and quantity, with a second row in the table
C5_Witness ==
    /\ last.op = "update"
    /\ last.args.id \in DOMAIN last.before
    /\ Cardinality(DOMAIN last.before) = 2
    /\ last.before[last.args.id].isbn = last.args.isbn
    /\ last.before[last.args.id].title # last.args.title
    /\ last.before[last.args.id].author # last.args.author
    /\ last.before[last.args.id].quantity # last.args.quantity
    /\ last.ok

\* C6: delete_book(id) reports success, removes the row with that id when
\* there is one and changes no other row; when there is none (a repeated
\* delete) it is a no-op success; an unfiltered view_books right after a delete
\* has no tuple with the deleted id.
C6_DeleteExactlyOne ==
    /\ [](last.op = "delete"
            => /\ last.ok
               /\ DOMAIN books = DOMAIN last.before \ {last.args.id}
               /\ \A i \in DOMAIN books : books[i] = last.before[i]
               /\ last.args.id \notin DOMAIN last.before => books = last.before)
    /\ [][(last.op = "delete" /\ last'.op = "view" /\ last'.args.query = <<>>)
            => \A k \in 1..Len(last'.rows) : last'.rows[k].id # last.args.id]_vars

\* C6 case: a delete_book of one of two rows
C6_Witness ==
    /\ last.op = "delete"
    /\ last.args.id \in DOMAIN last.before
    /\ Cardinality(DOMAIN last.before) = 2
    /\ Cardinality(DOMAIN books) = 1

\* C7: view_books() without a filter returns exactly the rows whose ids a
\* successful insert assigned and no delete removed since, each once and with
\* its current fields; with no such row it returns the empty sequence.
C7_ViewAllIsLive ==
    (last.op = "view" /\ last.args.query = <<>>)
        => /\ last.ok
           /\ ResultIds(last.rows) = live
           /\ Len(last.rows) = Cardinality(live)
           /\ \A k \in 1..Len(last.rows) :
                 /\ last.rows[k].id \in DOMAIN books
                 /\ last.rows[k] = Tuple(books, last.rows[k].id)
           /\ live = {} => last.rows = <<>>

\* C7 case: an unfiltered view_books of a table that inserts filled with two
\* rows and a delete then reduced to one
C7_Witness ==
    /\ last.op = "view"
    /\ last.args.query = <<>>
    /\ Len(last.rows) = 1
    /\ issued # live

\* the filter occurs in the text as written
Occurs(text, filter) == Contains(text, filter)

\* the filter occurs in the text when letter case is ignored
OccursFolded(text, filter) ==
    Contains([k \in 1..Len(text) |-> Fold(text[k])],
             [k \in 1..Len(filter) |-> Fold(filter[k])])

\* C8: for a non-empty filter, view_books(filter) returns a row if and only if
\* the filter is a substring of its title, author or isbn (read with or
\* without regard to letter case).
C8_FilterIsSubstring ==
    (last.op = "view" /\ last.args.query # <<>>)
        => \/ ResultIds(last.rows) =
                {i \in DOMAIN books :
                    \/ Occurs(books[i].title, last.args.query)
                    \/ Occurs(books[i].author, last.args.query)
                    \/ Occurs(books[i].isbn, last.args.query)}
           \/ ResultIds(last.rows) =
                {i \in DOMAIN books :
                    \/ OccursFolded(books[i].title, last.args.query)
                    \/ OccursFolded(books[i].author, last.args.query)
                    \/ OccursFolded(books[i].isbn, last.args.query)}

(***************************************************************************)
(* Properties of the list view                                             *)
(***************************************************************************)
FieldKeys == {"id", "title", "author", "isbn", "quantity"}

\* C9: round trip: when the text rendered for one book, whose values hold no
\* newline, is selected as a whole, the parse recovers id, title, author, isbn
\* and quantity of the book exactly (numbers as their decimal text), and the
\* form and the selected id take these values.
C9_RoundTrip ==
    (/\ shown.op = "select"
     /\ Len(shown.input) = 1
     /\ shown.from = 1
     /\ shown.to = Len(books_list))
        => LET r == shown.input[1]
           IN  /\ DOMAIN shown.data = FieldKeys
               /\ shown.data["id"] = Decimal(r.id)
               /\ shown.data["title"] = r.title
               /\ shown.data["author"] = r.author
               /\ shown.data["isbn"] = r.isbn
               /\ shown.data["quantity"] = Decimal(r.quantity)
               /\ selected_book_id = Decimal(r.id)
               /\ title_text = r.title
               /\ author_text = r.author
               /\ isbn_text = r.isbn
               /\ quantity_text = Decimal(r.quantity)

\* C10: rendering an empty list replaces whatever the widget held by the one
\* line "No books found."; rendering a non-empty list leaves one block of
\* eight lines per book, in order, each opening with a separator and the
\* book's ID line, and no line "No books found.".
C10_RenderEmptyOrBlocks ==
    shown.op = "display"
        => IF shown.input = <<>>
           THEN books_list = <<NoBooksFound>>
           ELSE /\ Len(books_list) = 8 * Len(shown.input)
                /\ \A k \in 1..Len(shown.input) :
                      /\ books_list[8 * (k - 1) + 1] = Separator
                      /\ books_list[8 * (k - 1) + 2] =
                            LabelId \o <<" ">> \o Decimal(shown.input[k].id)
                      /\ books_list[8 * (k - 1) + 7] = Separator
                /\ \A n \in 1..Len(books_list) : books_list[n] # NoBooksFound

\* C10 case: an empty list rendered over the block of a book
C10_Witness ==
    /\ shown.op = "display"
    /\ shown.input = <<>>
    /\ Len(shown.before) = 8
    /\ books_list = <<NoBooksFound>>

(***************************************************************************)
(* Properties of the store on its own authority                            *)
(***************************************************************************)
\* C11: quantity boundary at the store: with a usable file and an isbn no row
\* carries, insert_book with quantity 0 succeeds and adds the row, and
\* insert_book with quantity -1 fails and adds no row.
C11_QuantityBoundary ==
    (/\ last.op = "insert"
     /\ storage = "ok"
     /\ OthersWithIsbn(last.before, 0, last.args.isbn) = {})
        => /\ last.args.quantity = 0
                => (last.ok /\ Cardinality(DOMAIN books) =
                                  Cardinality(DOMAIN last.before) + 1)
           /\ last.args.quantity < 0
                => (~last.ok /\ books = last.before)

C13_UpdateKeepsIds ==
    /\ \A i \in DOMAIN books : i \in Nat /\ i >= 1
    /\ last.op = "update"
          => /\ DOMAIN books = DOMAIN last.before
             /\ \A i \in DOMAIN books :
                   i # last.args.id => books[i] = last.before[i]
             /\ (last.ok /\ last.args.id \in DOMAIN books)
                   => books[last.args.id] =
                         Row(last.args.title, last.args.author,
                             last.args.isbn, last.args.quantity)

\* C13 case: an update_book that changed the title of one of two rows
C13_Witness ==
    /\ last.op = "update"
    /\ last.ok
    /\ Cardinality(DOMAIN last.before) = 2
    /\ last.args.id \in DOMAIN last.before
    /\ last.before[last.args.id].title # last.args.title

\* the last call returned the store's one failure outcome, False; view_books
\* has none: whatever happens it returns a list
ReportsFailure == last.op \in {"insert", "update", "delete"} /\ ~last.ok

\* C14: every failure of a store call reaches the caller as an outcome that
\* tells its kind and that no successful call returns: a call whose handler
\* caught an exception does not return True and, for view_books, does not
\* return the empty list that a successful query without a match returns.
C14_FailureDiffersFromSuccess ==
    last.raised # "none"
        => /\ last.op = "view" => last.rows # <<>>
           /\ last.op # "view" => ~last.ok

\* C15: when the file could not be opened or the schema not created at
\* construction, every later insert_book, view_books, update_book and
\* delete_book fails: none reports success or an ordinary result.
C15_FailedConstructionFailsFast ==
    (storage # "ok" /\ last.op # "init") => ReportsFailure


(***************************************************************************)
(* Properties of the window in use                                         *)
(***************************************************************************)
\* a step that is one run of _on_list_select
SelectStep == shown' # shown /\ shown'.op = "select"

\* no line of the span from..to of the list holds the label
LacksLabel(from, to, label) ==
    \A k \in from..to : ~Contains(books_list[k], label)

\* C16: when the selected span lacks the label line of a field, the parsed
\* result omits the field and the field's entry is left as the user had it,
\* never overwritten with the empty string
C16_MissingFieldLeftAlone ==
    [][SelectStep =>
         /\ LacksLabel(shown'.from, shown'.to, LabelTitle)
               => "title" \notin DOMAIN shown'.data /\ title_text' = title_text
         /\ LacksLabel(shown'.from, shown'.to, LabelAuthor)
               => "author" \notin DOMAIN shown'.data
                  /\ author_text' = author_text
         /\ LacksLabel(shown'.from, shown'.to, LabelIsbn)
               => "isbn" \notin DOMAIN shown'.data /\ isbn_text' = isbn_text
         /\ LacksLabel(shown'.from, shown'.to, LabelQuantity)
               => "quantity" \notin DOMAIN shown'.data
                  /\ quantity_text' = quantity_text]_vars


\* a step in which a handler calls insert_book or update_book
StoreWrite == last' # last /\ last'.op \in {"insert", "update"}

\* the text of an entry field reads as the integer n
Denotes(text, n) == Strip(text) = Decimal(n)

\* a record with title, author and isbn not empty and a quantity >= 0
WellFormed(row) ==
    /\ row.title # <<>>
    /\ row.author # <<>>
    /\ row.isbn # <<>>
    /\ row.quantity \in Nat

\* C17: an Add Book or Update Selected command whose title, author, isbn or
\* quantity entry is empty, or whose quantity is negative or not a number,
\* never reaches the store: whenever a handler calls insert_book or
\* update_book no entry is empty, the quantity entry reads as an integer
\* n >= 0 and n is the quantity passed; hence every record in the store has
\* a non-empty title, author and isbn and an integer quantity >= 0
C17_InvalidNeverStored ==
    /\ [](\A id \in DOMAIN books : WellFormed(books[id]))
    /\ [][StoreWrite =>
            /\ title_text # <<>>
            /\ author_text # <<>>
            /\ isbn_text # <<>>
            /\ quantity_text # <<>>
            /\ \E n \in 0..9 :
                  Denotes(quantity_text, n) /\ last'.args.quantity = n
            /\ WellFormed(last'.args)]_vars

\* Add Book or Update Selected has just refused a quantity of -1, and no call
\* on the store has carried it
C17_Witness ==
    /\ status_message = <<"Quantity must be a non-negative integer.">>
    /\ quantity_text = <<"-", "1">>
    /\ last.args.quantity # 0 - 1
    /\ \A id \in DOMAIN books : books[id].quantity >= 0


\* a step in which a handler calls update_book or delete_book: the call is
\* the last one on the store, and it is a new record of a call or, being
\* the same call on the same table as the one before, has changed the
\* selected id
SelectedCall ==
    /\ last'.op \in {"update", "delete"}
    /\ ~SelectStep
    /\ last' # last \/ selected_book_id' # selected_book_id

\* what SelectedCall does with the selected id: it is set, it is what the
\* store is given, a success clears it and a failure keeps it
SelectedIdUsed ==
    SelectedCall =>
        /\ selected_book_id # NoAttr
        /\ selected_book_id # None
        /\ last'.args.id = RowidOf(selected_book_id)
        /\ last'.ok => selected_book_id' = None
        /\ ~last'.ok => selected_book_id' = selected_book_id

\* C18: Update Selected and Delete Selected never call the store unless a
\* selected record id is set; the id they pass is the one parsed from the
\* most recent selection; after a successful update or delete the selected
\* id is cleared (so a second Update or Delete without a new selection finds
\* no id set and is rejected), and after a failed one it is retained
C18_SelectedIdLifecycle ==
    [][SelectedIdUsed /\ (SelectedCall => selected_book_id = recent)]_vars

\* C18, amended: as C18, the id passed being the one parsed from the most
\* recent selection that held a labelled line: every such selection sets
\* the selected id to the id it parsed, and nothing else changes the
\* selected id but the clearing after a successful update or delete
C18_SelectedIdLifecycle_Amended ==
    [][/\ SelectedIdUsed
       /\ (SelectStep /\ DOMAIN shown'.data # {})
             => selected_book_id' = Get(shown'.data, "id", None)
       /\ selected_book_id' # selected_book_id
             => \/ SelectStep /\ DOMAIN shown'.data # {}
                \/ SelectedCall /\ last'.ok]_vars

\* record 2 was selected and Update Selected has just succeeded on it: the
\* selected id is cleared
C18_Witness ==
    /\ last.op = "update"
    /\ last.ok
    /\ last.args.id = 2
    /\ recent = <<"2">>
    /\ status_message = <<"Book ID ", "2", " updated successfully!">>
    /\ selected_book_id = None


\* C19: the displayed list is never stale: after any sequence of Add, View
\* All, Search, Update and Delete commands the list is empty, or the one
\* line "No books found.", or made of record blocks each of which is the
\* block of a record now in the store, with that record's id, title, author,
\* isbn and quantity
C19_ListNeverStale ==
    \/ books_list = <<>>
    \/ books_list = <<NoBooksFound>>
    \/ /\ Len(books_list) % 8 = 0
       /\ \A k \in 1..(Len(books_list) \div 8) :
             \E id \in DOMAIN books :
                SubSeq(books_list, 8 * k - 7, 8 * k) = Block(Tuple(books, id))

\* Delete Selected has just removed one of two records shown as two blocks,
\* and the list is down to the block of the other
C19_Witness ==
    /\ last.op = "delete"
    /\ last.ok
    /\ Cardinality(DOMAIN last.before) = 2
    /\ Cardinality(DOMAIN books) = 1
    /\ Len(shown.before) = 16
    /\ Len(books_list) = 8

(***************************************************************************)
(* Properties of start-up                                                  *)
(***************************************************************************)
\* the five sample records under the ids 1 to 5
SampleTable == [id \in 1..5 |-> Samples[id]]

\* C20: start-up adds the five sample records if and only if the store is
\* empty at start-up: on an empty store it leaves exactly the five samples,
\* and on a store with at least one record it leaves the store as it found
\* it, so a restart neither duplicates a sample nor adds again one that was
\* deleted
C20_SeedIffEmpty ==
    last.op = "start"
        => IF DOMAIN last.before = {}
           THEN books = SampleTable /\ disk = SampleTable
           ELSE books = last.before /\ disk = last.before

\* a restart on a store from which one sample had been deleted: four
\* records before it and four after it
C20_Witness ==
    /\ last.op = "start"
    /\ Cardinality(DOMAIN last.before) = 4
    /\ Cardinality(DOMAIN books) = 4
    /\ last.issuedBefore = 1..5


(***************************************************************************)
(* Properties of a selection over several blocks                           *)
(***************************************************************************)
\* the lines of the span from..to of the list that carry the label
Carrying(from, to, label) ==
    {k \in from..to : Contains(books_list[k], label)}

\* line k of the list carries one of the five labels
IsLabelled(k) ==
    \E label \in {LabelId, LabelTitle, LabelAuthor, LabelIsbn, LabelQuantity} :
        Contains(books_list[k], label)

\* the span from..to holds labelled lines of more than one rendered block
SeveralBlocks(from, to) ==
    \E j, k \in from..to :
        /\ IsLabelled(j)
        /\ IsLabelled(k)
        /\ (j - 1) \div 8 # (k - 1) \div 8

\* what follows the label on the last line of the span that carries it
LastValue(from, to, label) ==
    Strip(SplitSecond(books_list[SetMax(Carrying(from, to, label))], label))

\* the parsed result holds for key what last-seen-wins gives for the label
LastSeenWins(key, label) ==
    IF Carrying(shown.from, shown.to, label) = {}
    THEN key \notin DOMAIN shown.data
    ELSE /\ key \in DOMAIN shown.data
         /\ shown.data[key] =
               IF key = "id"
               THEN SplitHead(LastValue(shown.from, shown.to, label), <<" ">>)
               ELSE LastValue(shown.from, shown.to, label)

\* C21: when the selected span holds labelled lines of more than one rendered
\* block, the parse yields, for each field independently, the value of the
\* last line of the span that carries the field's label, so the id is that
\* of the last ID: line of the span
C21_LastSeenWins ==
    (shown.op = "select" /\ SeveralBlocks(shown.from, shown.to))
        => /\ LastSeenWins("id", LabelId)
           /\ LastSeenWins("title", LabelTitle)
           /\ LastSeenWins("author", LabelAuthor)
           /\ LastSeenWins("isbn", LabelIsbn)
           /\ LastSeenWins("quantity", LabelQuantity)
           /\ selected_book_id = shown.data["id"]

=============================================================================
